---- MODULE Spec2Model ----
(***************************************************************************)
(* A model of routemap_optimize.py: the data model built by                *)
(* create_data_model and the simulated-annealing solver tsp_solver with    *)
(* fixed first and last waypoints.                                         *)
(*                                                                         *)
(* Tours are functions over 0..len-1, as Python lists are indexed.         *)
(* Floating point is modelled in fixed point: a temperature is a whole     *)
(* number of 1/PowScale units and a product below one unit is flushed to   *)
(* zero, as an IEEE underflow is; a probability is a whole number of       *)
(* 1/ProbScale units.  The Places are chosen so that every squared         *)
(* distance is a perfect square and the square root is exact.              *)
(***************************************************************************)
EXTENDS Integers, Sequences, FiniteSets, TLC

\* ------------------------------------------------------------- bounds
MaxN == 4          \* most waypoints in one request
MaxIter == 3       \* largest iteration budget
PowScale == 2      \* temperature units per 1.0
ProbScale == 3     \* probability units per 1.0

\* (latitude, longitude) pairs a waypoint may have
Places == {<<0, 0>>, <<3, 0>>, <<0, 4>>}

\* initial temperatures: 0 and 2.0
Temperatures == {0, 2}

\* cooling rates as <<numerator, denominator>>: 0, 1/2 and 1
CoolingRates == {<<0, 1>>, <<1, 2>>, <<1, 1>>}

\* kilometres per degree of arc, the scale of geodesic(...).kilometers
KmPerDegree == 111

NoDraw == -1       \* r when random2.random() was not evaluated

VARIABLES
    locations,          \* data_model['locations'], a function over 0..n-1
    distance_matrix,    \* data_model['distance_matrix']
    iterations,         \* argument
    temperature,        \* argument
    cooling_rate,       \* argument
    pc,                 \* "start", "loop", "accept", "best", "done", "error"
    step,               \* the loop variable _
    temp,               \* temp of this iteration, in 1/PowScale units
    current_solution,
    current_distance,
    best_solution,
    best_distance,
    new_solution,
    new_distance,
    delta,
    i,
    j,
    r,                  \* the value of random2.random(), in 1/ProbScale units
    err,                \* the exception raised, "" when none
    result,             \* the tour whose locations are returned
    tried               \* history: every tour that has been current_solution

vars == <<locations, distance_matrix, iterations, temperature, cooling_rate,
          pc, step, temp, current_solution, current_distance, best_solution,
          best_distance, new_solution, new_distance, delta, i, j, r, err,
          result, tried>>

inputs == <<locations, distance_matrix, iterations, temperature, cooling_rate>>

\* ------------------------------------------------------- pure helpers
num_locations == Cardinality(DOMAIN locations)

Len0(list) == Cardinality(DOMAIN list)

\* python_math.sqrt on the squared distances the Places give
Sqrt(x) == CHOOSE s \in 0..x : s * s <= x /\ (s + 1) * (s + 1) > x

\* the nested function distance of tsp_solver
distance(point1, point2) ==
    Sqrt((point1[1] - point2[1]) * (point1[1] - point2[1])
         + (point1[2] - point2[2]) * (point1[2] - point2[2]))

\* geodesic(a, b).kilometers, whole kilometres on a locally flat earth
geodesic(point1, point2) ==
    KmPerDegree * Sqrt((point1[1] - point2[1]) * (point1[1] - point2[1])
                       + (point1[2] - point2[2]) * (point1[2] - point2[2]))

compute_distance_matrix(locs) ==
    [a \in DOMAIN locs |-> [b \in DOMAIN locs |-> geodesic(locs[a], locs[b])]]

RECURSIVE SumTo(_, _, _)
SumTo(locs, sol, k) ==
    IF k < 1 THEN 0
    ELSE SumTo(locs, sol, k - 1) + distance(locs[sol[k - 1]], locs[sol[k]])

\* sum(distance(locations[s[k-1]], locations[s[k]]) for k in range(1, len(s)))
PathLength(locs, sol) == SumTo(locs, sol, Len0(sol) - 1)

\* the orders random2.shuffle can leave list(range(m)) in
Shuffles(m) ==
    {f \in [0..(m - 1) -> 0..(m - 1)] :
        \A a, b \in 0..(m - 1) : a # b => f[a] # f[b]}

\* len(locations[1:-1])
InteriorCount(n) == IF n >= 2 THEN n - 2 ELSE 0

\* [0] + [x + 1 for x in shuffled] + [num_locations - 1]
WithEndpoints(shuffled, n) ==
    LET m == Len0(shuffled) IN
    [k \in 0..(m + 1) |->
        IF k = 0 THEN 0 ELSE IF k = m + 1 THEN n - 1 ELSE shuffled[k - 1] + 1]

\* a sample over every position, range(0, num_locations)
SampleRangeAll(n) == 0..(n - 1)

\* range(1, num_locations - 1)
SampleRange(n) == 1..(n - 2)

\* an assignment that loses one of the two values
SwapLossy(sol, a, b) == [sol EXCEPT ![a] = sol[b]]

\* new_solution[i], new_solution[j] = new_solution[j], new_solution[i]
Swap(sol, a, b) == [sol EXCEPT ![a] = sol[b], ![b] = sol[a]]

\* cooling_rate ** k, in 1/PowScale units
RECURSIVE Pow(_, _)
Pow(rate, k) ==
    IF k = 0 THEN PowScale ELSE (Pow(rate, k - 1) * rate[1]) \div rate[2]

\* temperature * (cooling_rate ** _)
Temp(t0, rate, k) == t0 * Pow(rate, k)

\* e ** (-k) in 1/ProbScale units, with e ** (-1) taken as 3/8
RECURSIVE ExpNeg(_)
ExpNeg(k) == IF k = 0 THEN ProbScale ELSE (ExpNeg(k - 1) * 3) \div 8

\* python_math.exp(-d / t) for d >= 0 and t > 0, d / t rounded up
AcceptProbability(d, t) == ExpNeg((d * PowScale + t - 1) \div t)

\* a test that only ever takes improving moves
AcceptsGreedy(d, t, draw) == d < 0

\* delta < 0 or random2.random() < python_math.exp(-delta / temp)
Accepts(d, t, draw) == d < 0 \/ draw < AcceptProbability(d, t)

\* best follows current whatever its length
ImprovesAlways(cur, best) == TRUE

\* the comparison the wrong way round
ImprovesFlipped(cur, best) == cur > best

\* current_distance < best_distance
Improves(cur, best) == cur < best

\* ------------------------------------------------------------- Init
Init ==
    /\ \E n \in 0..MaxN : locations \in [0..(n - 1) -> Places]
    /\ distance_matrix = compute_distance_matrix(locations)
    /\ iterations \in -1..MaxIter
    /\ temperature \in Temperatures
    /\ cooling_rate \in CoolingRates
    /\ pc = "start"
    /\ step = 0
    /\ temp = 0
    /\ current_solution = <<>>
    /\ current_distance = 0
    /\ best_solution = <<>>
    /\ best_distance = 0
    /\ new_solution = <<>>
    /\ new_distance = 0
    /\ delta = 0
    /\ i = 0
    /\ j = 0
    /\ r = NoDraw
    /\ err = ""
    /\ result = <<>>
    /\ tried = {}

\* ---------------------------------------------------------- actions
\* lines 50-51 on an empty list: locations[0] raises IndexError
StartFails ==
    /\ pc = "start"
    /\ num_locations = 0
    /\ pc' = "error"
    /\ err' = "IndexError"
    /\ UNCHANGED <<inputs, step, temp, current_solution, current_distance,
                   best_solution, best_distance, new_solution, new_distance,
                   delta, i, j, r, result, tried>>

\* lines 46-68: the shuffled initial tour, its length, and best = current
Start ==
    /\ pc = "start"
    /\ num_locations > 0
    /\ \E shuffled \in Shuffles(InteriorCount(num_locations)) :
         LET sol == WithEndpoints(shuffled, num_locations) IN
         /\ current_solution' = sol
         /\ current_distance' = PathLength(locations, sol)
         /\ best_solution' = sol
         /\ best_distance' = PathLength(locations, sol)
         /\ tried' = {sol}
    /\ pc' = "loop"
    /\ UNCHANGED <<inputs, step, temp, new_solution, new_distance, delta,
                   i, j, r, err, result>>

\* lines 72-74 when the sample is larger than range(1, num_locations - 1)
ProposeFails ==
    /\ pc = "loop"
    /\ step < iterations
    /\ Cardinality(SampleRange(num_locations)) < 2
    /\ temp' = Temp(temperature, cooling_rate, step)
    /\ new_solution' = current_solution
    /\ pc' = "error"
    /\ err' = "ValueError"
    /\ UNCHANGED <<inputs, step, current_solution, current_distance,
                   best_solution, best_distance, new_distance, delta, i, j,
                   r, result, tried>>

\* lines 72-82: cool, copy, swap two sampled positions, measure, delta
Propose ==
    /\ pc = "loop"
    /\ step < iterations
    /\ Cardinality(SampleRange(num_locations)) >= 2
    /\ temp' = Temp(temperature, cooling_rate, step)
    /\ \E a, b \in SampleRange(num_locations) :
         /\ a # b
         /\ i' = a
         /\ j' = b
         /\ new_solution' = Swap(current_solution, a, b)
    /\ new_distance' = PathLength(locations, new_solution')
    /\ delta' = new_distance' - current_distance
    /\ pc' = "accept"
    /\ UNCHANGED <<inputs, step, current_solution, current_distance,
                   best_solution, best_distance, r, err, result, tried>>

\* line 83 with delta >= 0 and temp == 0: -delta / temp divides by zero
AcceptFails ==
    /\ pc = "accept"
    /\ delta >= 0
    /\ temp = 0
    /\ r' \in 0..(ProbScale - 1)
    /\ pc' = "error"
    /\ err' = "ZeroDivisionError"
    /\ UNCHANGED <<inputs, step, temp, current_solution, current_distance,
                   best_solution, best_distance, new_solution, new_distance,
                   delta, i, j, result, tried>>

\* lines 83-85: the acceptance test and, when it passes, the replacement
Accept ==
    /\ pc = "accept"
    /\ delta < 0 \/ temp # 0
    /\ IF delta < 0 THEN r' = NoDraw ELSE r' \in 0..(ProbScale - 1)
    /\ IF Accepts(delta, temp, r')
       THEN /\ current_solution' = new_solution
            /\ current_distance' = new_distance
            /\ tried' = tried \cup {new_solution}
       ELSE UNCHANGED <<current_solution, current_distance, tried>>
    /\ pc' = "best"
    /\ UNCHANGED <<inputs, step, temp, best_solution, best_distance,
                   new_solution, new_distance, delta, i, j, err, result>>

\* lines 87-89 and the end of one pass of the for loop
UpdateBest ==
    /\ pc = "best"
    /\ IF Improves(current_distance, best_distance)
       THEN /\ best_solution' = current_solution
            /\ best_distance' = current_distance
       ELSE UNCHANGED <<best_solution, best_distance>>
    /\ step' = step + 1
    /\ r' = NoDraw
    /\ pc' = "loop"
    /\ UNCHANGED <<inputs, temp, current_solution, current_distance,
                   new_solution, new_distance, delta, i, j, err, result,
                   tried>>

\* line 91 once range(iterations) is exhausted
Return ==
    /\ pc = "loop"
    /\ step >= iterations
    /\ result' = best_solution
    /\ pc' = "done"
    /\ UNCHANGED <<inputs, step, temp, current_solution, current_distance,
                   best_solution, best_distance, new_solution, new_distance,
                   delta, i, j, r, err, tried>>

Next ==
    \/ StartFails
    \/ Start
    \/ ProposeFails
    \/ Propose
    \/ AcceptFails
    \/ Accept
    \/ UpdateBest
    \/ Return

Spec == Init /\ [][Next]_vars

\* ------------------------------------------------------- properties
\* the tour is list(range(n)) with positions 0 and n-1 holding 0 and n-1
Pinned(sol) ==
    /\ DOMAIN sol = 0..(num_locations - 1)
    /\ sol[0] = 0
    /\ sol[num_locations - 1] = num_locations - 1

\* n entries over 0..n-1 whose values are all of 0..n-1: none twice, none missing
IsPermutation(sol) ==
    /\ DOMAIN sol = 0..(num_locations - 1)
    /\ {sol[k] : k \in DOMAIN sol} = 0..(num_locations - 1)

RECURSIVE MatrixSumTo(_, _, _)
MatrixSumTo(matrix, sol, k) ==
    IF k < 1 THEN 0
    ELSE MatrixSumTo(matrix, sol, k - 1) + matrix[sol[k - 1]][sol[k]]

\* the length of a tour under the precomputed distance matrix
MatrixPathLength(matrix, sol) == MatrixSumTo(matrix, sol, Len0(sol) - 1)

Proposed == new_solution # <<>>

\* n >= 2, iterations > 0, temperature > 0 and cooling_rate in (0, 1)
ValidInput ==
    /\ num_locations >= 2
    /\ iterations > 0
    /\ temperature > 0
    /\ 0 < cooling_rate[1]
    /\ cooling_rate[1] < cooling_rate[2]

\* C1: with n >= 2 waypoints the initial tour, every proposal, every current
\* tour, every best tour and the returned tour hold waypoint 0 at position 0
\* and waypoint n-1 at position n-1, and the swapped positions lie in
\* [1, n-2].
C1_EndpointsFixed ==
    (num_locations >= 2 /\ pc # "start") =>
        /\ Pinned(current_solution)
        /\ Pinned(best_solution)
        /\ Proposed => Pinned(new_solution)
        /\ pc \in {"accept", "best"} =>
             /\ i \in 1..(num_locations - 2)
             /\ j \in 1..(num_locations - 2)
        /\ pc = "done" => Pinned(result)

\* an accepted swap of two interior positions
C1_Witness ==
    /\ pc = "best"
    /\ num_locations >= 4
    /\ current_solution = new_solution
    /\ current_solution # best_solution
    /\ i # j

\* C2: with n >= 2 waypoints the current tour, the best tour and the
\* returned tour are permutations of 0..n-1 after the shuffle and after any
\* number of swap, accept and reject steps.
C2_Permutation ==
    (num_locations >= 2 /\ pc # "start") =>
        /\ IsPermutation(current_solution)
        /\ IsPermutation(best_solution)
        /\ pc = "done" => IsPermutation(result)

\* a run that accepted at least one swap and returned
C2_Witness ==
    /\ pc = "done"
    /\ num_locations >= 4
    /\ step >= 2
    /\ Cardinality(tried) >= 2
    /\ IsPermutation(result)

\* C3: for every n >= 2 and valid config the proposal step can always be
\* taken (no ValueError from the sample), and the solver returns after
\* exactly `iterations` passes of the loop.
C3_RunsAllIterations ==
    ValidInput =>
        /\ err # "ValueError"
        /\ pc = "done" => step = iterations

\* C4: with n = 2 the solver never fails and returns exactly the tour
\* [0, 1], whatever valid iterations, temperature and cooling_rate it is
\* given.
C4_TrivialTour ==
    (ValidInput /\ num_locations = 2) =>
        /\ pc # "error"
        /\ pc = "done" => result = [k \in 0..1 |-> k]

\* C5: the solver fails only on invalid configuration (iterations < 0,
\* cooling_rate outside (0, 1), n < 2), every failure is raised before the
\* loop has executed any statement, and no invalid configuration produces
\* a result.
C5_ConfigOK ==
    /\ num_locations >= 2
    /\ iterations >= 0
    /\ 0 < cooling_rate[1]
    /\ cooling_rate[1] < cooling_rate[2]

C5_OnlyValidationErrors ==
    /\ pc = "error" => (~C5_ConfigOK /\ ~Proposed)
    /\ pc = "done" => C5_ConfigOK

\* C6: on valid input, in an iteration whose temperature is zero no
\* ZeroDivisionError is raised and the proposal replaces the current tour
\* exactly when delta < 0.
C6_ZeroTemperatureSafe ==
    (ValidInput /\ temp = 0 /\ pc \in {"accept", "best", "error"}) =>
        /\ err # "ZeroDivisionError"
        /\ pc = "best" => (current_solution = new_solution <=> delta < 0)

\* C7: best_distance never increases from one step of the run to the next.
C7_BestMonotone ==
    [][pc # "start" => best_distance' <= best_distance]_vars

\* a worsening move was accepted and the recorded best stayed below it
C7_Witness ==
    /\ pc = "loop"
    /\ step >= 1
    /\ current_solution = new_solution
    /\ delta > 0
    /\ best_distance < current_distance

\* C8: on valid input the length the solver holds for the current, best and
\* proposed tour is the sum of the data model's distance_matrix entries
\* along the tour.
C8_UsesDistanceMatrix ==
    (ValidInput /\ pc # "start") =>
        /\ current_distance
             = MatrixPathLength(distance_matrix, current_solution)
        /\ best_distance = MatrixPathLength(distance_matrix, best_solution)
        /\ pc \in {"accept", "best"} =>
             new_distance = MatrixPathLength(distance_matrix, new_solution)

\* C9: in the acceptance step a proposal with delta < 0 becomes the current
\* tour with its length; one with delta >= 0 does so exactly when the draw
\* is below exp(-delta / temp); with temp = 0 and delta >= 0 it never does;
\* and a proposal that is not taken leaves current_solution,
\* current_distance, best_solution and best_distance as they were.
C9_Taken == current_solution' = new_solution /\ current_distance' = new_distance

C9_AcceptanceRule ==
    [][pc = "accept" =>
        /\ delta = new_distance - current_distance
        /\ delta < 0 => (pc' = "best" /\ C9_Taken)
        /\ (delta >= 0 /\ temp # 0) =>
             /\ pc' = "best"
             /\ r' \in 0..(ProbScale - 1)
             /\ C9_Taken <=> r' < AcceptProbability(delta, temp)
        /\ (delta >= 0 /\ temp = 0) => ~C9_Taken
        /\ ~C9_Taken => UNCHANGED <<current_solution, current_distance>>
        /\ UNCHANGED <<best_solution, best_distance, new_solution>>]_vars

\* a worsening proposal taken because the draw fell below its probability
C9_Witness ==
    /\ pc = "best"
    /\ delta > 0
    /\ r # NoDraw
    /\ r < AcceptProbability(delta, temp)
    /\ current_solution = new_solution
    /\ current_distance = new_distance

\* C10: at the end of every iteration, and on return, current_distance and
\* best_distance are the path lengths of current_solution and
\* best_solution, best_distance <= current_distance, and best_solution is a
\* shortest of the tours that have been current; the result is that tour.
C10_BestOfTried ==
    pc \in {"loop", "done"} =>
        /\ current_distance = PathLength(locations, current_solution)
        /\ best_distance = PathLength(locations, best_solution)
        /\ best_distance <= current_distance
        /\ current_solution \in tried
        /\ best_solution \in tried
        /\ \A sol \in tried : best_distance <= PathLength(locations, sol)
        /\ pc = "done" => result = best_solution

\* a returned best that a later, longer current tour did not displace
C10_Witness ==
    /\ pc = "done"
    /\ step >= 2
    /\ Cardinality(tried) >= 2
    /\ result # current_solution
    /\ best_distance < current_distance

====
